---- MODULE Spec2Model ----
(***************************************************************************)
(* A model of the Brainfuck interpreter (src/interpreter.py) and of the    *)
(* Brainfuck-to-C translator (src/bf2c.py).                                *)
(*                                                                         *)
(* Characters are one-character strings; a program text is a sequence of   *)
(* them.  Positions are 0-based as in the Python source, so the character  *)
(* at position p of text t is t[p + 1].  Bytes and characters handed to    *)
(* Register.write are modelled by their code points (ord).                 *)
(***************************************************************************)
EXTENDS Integers, Sequences, FiniteSets, TLC

(***************************************************************************)
(* Program constants.                                                      *)
(***************************************************************************)
\* interpreter.py:10 has 30_000 cells; the model keeps the tape circular
\* but short, so that both ends are reached.
REG_SIZE_MAX == 3
CHAR_SIZE_MAX == 256
BF_SYNTAX == {"+", "-", "[", "]", ".", ",", "<", ">"}
\* '\x04', the interrupting symbol (CTRL+D)
EOT == 4
\* the empty string '' that the keyboard read may hand back
EMPTY == 0 - 1

(***************************************************************************)
(* Bounds of the model.                                                    *)
(***************************************************************************)
\* every program text up to this length is explored
MaxLen == 3
\* longest preloaded input (outinput)
MaxInput == 2
\* characters printed before the model stops following a run
MaxOut == 3
\* largest n handed to move_left/move_right/increment/decrement
MaxN == 2
\* number of Register operations in a sequence from reset()
MaxOps == 5

(***************************************************************************)
(* Sequences.                                                              *)
(***************************************************************************)
SeqsUpTo(S, n) == UNION {[1..k -> S] : k \in 0..n}
Reverse(s) == [i \in 1..Len(s) |-> s[Len(s) + 1 - i]]
Indices(s) == [i \in 1..Len(s) |-> i - 1]
Min(a, b) == IF a < b THEN a ELSE b
Max(a, b) == IF a > b THEN a ELSE b

(***************************************************************************)
(* The inputs of the model.                                                *)
(***************************************************************************)
Scenarios ==
    { <<"+", "+", "+", ".">>,
      <<"+", "+", "[", ">", "+", "+", "<", "-", "]", ">", ".">>,
      <<"[", ",", ".", "]">>,
      <<"[", "[", "-", "]">>,
      <<"+", "[", ",", ".", "]">>,
      <<"+", "x", "[", "-", " ", "]", ".">>,
      <<"+", "[", "[", "-", "]", "]">>,
      <<"[", "]", "+", "[", "[", "-", "]", "]">>,
      <<"+", "[", "]", "-">>,
      <<"[", "-", "]", "[", "-", "]", "+">>,
      <<",", "[", ">", ",", "]">>,
      <<"[", "]", "]", "[", "[", "]">> }
Programs == SeqsUpTo(BF_SYNTAX, MaxLen)
RawTexts == Programs \cup Scenarios
\* bytes of the preloaded input: NUL, the interrupting symbol, the largest byte
InBytes == {0, EOT, 255}
\* what the keyboard read (getche) may deliver
GetcheChars == {EMPTY, 0, EOT, 255, CHAR_SIZE_MAX}

VARIABLES
    pc,            \* where the driver is
    text,          \* Main.text
    text_pos,      \* Main.text_pos / BFInterpreter.text_pos
    reg,           \* Register.reg, cell i of the tape is reg[i]
    pointer,       \* Register.pointer
    use_outinput,  \* BFInterpreter.use_outinput (option --prein)
    no_input,      \* Main.options["no-input"]
    outinput,      \* BFInterpreter.outinput
    output,        \* the characters printed by '.', as codes
    raw_lbrace,    \* map_braces / _find_brace_pair
    raw_rbrace,
    program_text,
    brace_map,     \* Main.brace_map: the dict as its (key, value) pairs in insertion order
    last,          \* the last operation, with the state it started from
    ops,           \* how many Register operations have been applied since reset()
    BFPROGRAM,     \* bf2c.py: the program text on its way through the pipeline
    IS_OPTIMIZE,   \* bf2c.py: option -o
    BFOPROGRAM,    \* bf2c.py: the optimized intermediate code
    CPROGRAM,      \* bf2c.py: the C text, piece by piece
    cleaner,       \* bf2c.py: the local variables of _bf_braces_cleaner
    cmachine,      \* the program that CPROGRAM is: array, ptr, c, stdin, stdout
    ref            \* the outcome kept for a comparison with a second run

vars == <<pc, text, text_pos, reg, pointer, use_outinput, no_input, outinput,
          output, raw_lbrace, raw_rbrace, program_text, brace_map, last,
          ops, BFPROGRAM, IS_OPTIMIZE, BFOPROGRAM, CPROGRAM, cleaner, cmachine, ref>>
bf2cVars == <<BFPROGRAM, IS_OPTIMIZE, BFOPROGRAM, CPROGRAM, cleaner, cmachine>>
registerVars == <<reg, pointer, last, ops>>
mapVars == <<raw_lbrace, raw_rbrace, program_text, brace_map>>
inputVars == <<use_outinput, no_input, outinput>>

(***************************************************************************)
(* Register                                                                *)
(***************************************************************************)
Cells == 0..(REG_SIZE_MAX - 1)
reset_reg == [i \in Cells |-> 0]

\* a move to the left that does not come back in at the other end
move_left_off(p, n) == p - n

move_left(p, n) == IF p - n < 0 THEN REG_SIZE_MAX - 1 ELSE p - n

\* a move to the right that stops at the last cell instead of coming back in at cell 0
move_right_stop(p, n) == IF p + n >= REG_SIZE_MAX THEN REG_SIZE_MAX - 1 ELSE p + n

move_right(p, n) == IF p + n >= REG_SIZE_MAX THEN 0 ELSE p + n

read(r, p) == r[p]

\* char is a code point; the '' case never gets here (interprete maps it to NUL)
write_num(char) ==
    LET num == IF char = EOT THEN 0 ELSE char
        num1 == IF num < 0 THEN CHAR_SIZE_MAX + num ELSE num
    IN  IF num1 >= CHAR_SIZE_MAX THEN 0 ELSE num1

write(r, p, char) == [r EXCEPT ![p] = write_num(char)]

\* an increment that wraps around instead of stopping at the top
increment_wrap(r, p, n) == [r EXCEPT ![p] = (r[p] + n) % CHAR_SIZE_MAX]

increment(r, p, n) ==
    IF r[p] + n >= CHAR_SIZE_MAX THEN [r EXCEPT ![p] = CHAR_SIZE_MAX - 1]
    ELSE [r EXCEPT ![p] = r[p] + n]

\* a decrement that wraps around instead of stopping at 0
decrement_wrap(r, p, n) == [r EXCEPT ![p] = (r[p] - n) % CHAR_SIZE_MAX]

decrement(r, p, n) ==
    IF r[p] - n <= 0 THEN [r EXCEPT ![p] = 0]
    ELSE [r EXCEPT ![p] = r[p] - n]

(***************************************************************************)
(* BFInterpreter                                                           *)
(***************************************************************************)
parse(t) == SelectSeq(t, LAMBDA c : c \in BF_SYNTAX)

\* the dict brace_map as a sequence of <<key, value>>
HasKey(m, k) == \E i \in 1..Len(m) : m[i][1] = k
GetItem(m, k) == m[CHOOSE i \in 1..Len(m) : m[i][1] = k][2]
HasValue(m, v) == \E i \in 1..Len(m) : m[i][2] = v
\* m[k] = v of Python: replaces the value of a present key, else appends
SetItem(m, k, v) ==
    IF HasKey(m, k) THEN [i \in 1..Len(m) |-> IF m[i][1] = k THEN <<k, v>> ELSE m[i]]
    ELSE Append(m, <<k, v>>)

\* a reverse lookup that hands back the position it was asked about
get_map_key_same(m, map_value) == map_value

\* the key of the first item whose value is map_value (KeyError when HasValue is false)
get_map_key(m, map_value) ==
    LET keyval_id == CHOOSE i \in 1..Len(m) :
                        /\ m[i][2] = map_value
                        /\ \A j \in 1..(i - 1) : m[j][2] # map_value
    IN  m[keyval_id][1]

\* a scan that stops at the first ']' whatever the nesting
RECURSIVE ScanBrace_flat(_, _, _, _)
ScanBrace_flat(ptext, i, lastp, complexity) ==
    IF i > lastp THEN 0 - 1
    ELSE IF ptext[i + 1] = "]" THEN i
    ELSE ScanBrace_flat(ptext, i + 1, lastp, complexity)

\* the for loop of _find_brace_pair from position i: the position of the ']' at
\* which it breaks, or -1 when it runs to the end without a break
RECURSIVE ScanBrace(_, _, _, _)
ScanBrace(ptext, i, lastp, complexity) ==
    IF i > lastp THEN 0 - 1
    ELSE LET char == ptext[i + 1]
             c1 == IF char = "[" THEN complexity + 1 ELSE complexity
         IN  IF char # "]" THEN ScanBrace(ptext, i + 1, lastp, c1)
             ELSE IF c1 - 1 <= 0 THEN i
             ELSE ScanBrace(ptext, i + 1, lastp, c1 - 1)

\* list.pop(list.index(v)): the list without the first occurrence of v
RemoveFirst(s, v) ==
    LET k == CHOOSE i \in 1..Len(s) : s[i] = v /\ \A j \in 1..(i - 1) : s[j] # v
    IN  SubSeq(s, 1, k - 1) \o SubSeq(s, k + 1, Len(s))

\* getche tells whether the operation read the keyboard
NoLast ==
    [op |-> "none", n |-> 0, reg |-> reset_reg, pointer |-> 0, text_pos |-> 0,
     outinput |-> <<>>, getche |-> FALSE]
Before(name, n) ==
    [op |-> name, n |-> n, reg |-> reg, pointer |-> pointer, text_pos |-> text_pos,
     outinput |-> outinput, getche |-> FALSE]

NoRef == [pc |-> "none"]
NoCleaner ==
    [current |-> <<>>, first_brace |-> 0 - 1, at |-> 0, f_changed |-> FALSE,
     state |-> "none"]

\* the compiled program has not been started
NoCMachine ==
    [array |-> <<>>, ptr |-> 0, c |-> 0, stdin |-> <<>>, stdout |-> <<>>, at |-> 0,
     state |-> "none"]

OutInputs == SeqsUpTo(InBytes, MaxInput)

\* Main.__init__: the options are parsed, the preloaded input is read, the file is named
Init ==
    /\ pc = "load"
    /\ text \in RawTexts
    /\ text_pos = 0
    /\ reg = reset_reg
    /\ pointer = 0
    /\ use_outinput \in BOOLEAN
    /\ no_input \in BOOLEAN
    /\ outinput \in OutInputs
    /\ (~use_outinput => outinput = <<>>)
    /\ output = <<>>
    /\ raw_lbrace = <<>>
    /\ raw_rbrace = <<>>
    /\ program_text = <<>>
    /\ brace_map = <<>>
    /\ last = NoLast
    /\ ops = 0
    /\ BFPROGRAM = <<>>
    /\ IS_OPTIMIZE = FALSE
    /\ BFOPROGRAM = <<>>
    /\ CPROGRAM = <<>>
    /\ cleaner = NoCleaner
    /\ cmachine = NoCMachine
    /\ ref = NoRef

\* Main.run up to the call of map_braces: reset, load, parse
Load ==
    /\ pc = "load"
    /\ reg' = reset_reg
    /\ pointer' = 0
    /\ text_pos' = 0
    /\ text' = parse(text)
    /\ pc' = "map_braces"
    /\ UNCHANGED <<use_outinput, no_input, outinput, output, raw_lbrace, raw_rbrace,
                   program_text, brace_map, last>>
    /\ UNCHANGED <<ops, bf2cVars, ref>>

\* the test of map_braces on the two lists of positions
BraceMismatch_fewer(lb, rb) == Len(lb) < Len(rb)
BraceMismatch(lb, rb) == Len(lb) # Len(rb)

\* BFInterpreter.map_braces up to the call of _find_brace_pair
map_braces ==
    /\ pc = "map_braces"
    /\ LET lb == Reverse(SelectSeq(Indices(text), LAMBDA p : text[p + 1] = "["))
           rb == SelectSeq(Indices(text), LAMBDA p : text[p + 1] = "]")
       IN  /\ raw_lbrace' = lb
           /\ raw_rbrace' = rb
           /\ program_text' = text
           /\ brace_map' = <<>>
           /\ pc' = IF BraceMismatch(lb, rb) THEN "exit5"
                    ELSE IF Len(lb) = 0 THEN "run"
                    ELSE "find_brace_pair"
    /\ UNCHANGED <<text, text_pos, reg, pointer, use_outinput, no_input, outinput,
                   output, last>>
    /\ UNCHANGED <<ops, bf2cVars, ref>>

\* one turn of the while loop of _find_brace_pair
find_brace_pair ==
    /\ pc = "find_brace_pair"
    /\ Len(raw_lbrace) > 0
    /\ LET first == raw_lbrace[Len(raw_lbrace)]
           lastp == raw_rbrace[Len(raw_rbrace)]
           i == ScanBrace(program_text, first, lastp, 0)
       IN  IF i < 0
           THEN UNCHANGED <<raw_lbrace, raw_rbrace, program_text, brace_map, pc>>
           ELSE /\ raw_lbrace' = SubSeq(raw_lbrace, 1, Len(raw_lbrace) - 1)
                /\ raw_rbrace' = RemoveFirst(raw_rbrace, i)
                /\ program_text' = [program_text EXCEPT ![first + 1] = "x", ![i + 1] = "x"]
                /\ brace_map' = SetItem(brace_map, first, i)
                /\ pc' = IF Len(raw_lbrace) = 1 THEN "run" ELSE "find_brace_pair"
    /\ UNCHANGED <<text, text_pos, reg, pointer, use_outinput, no_input, outinput,
                   output, last>>
    /\ UNCHANGED <<ops, bf2cVars, ref>>

Running == pc = "run" /\ text_pos < Len(text)
symbol == text[text_pos + 1]

\* the instructions that only touch the register: interprete, then text_pos += 1
interprete_plus ==
    /\ Running /\ symbol = "+"
    /\ reg' = increment(reg, pointer, 1)
    /\ text_pos' = text_pos + 1
    /\ last' = Before("+", 1)
    /\ UNCHANGED <<pc, text, pointer, use_outinput, no_input, outinput, output,
                   raw_lbrace, raw_rbrace, program_text, brace_map>>
    /\ UNCHANGED <<ops, bf2cVars, ref>>

interprete_minus ==
    /\ Running /\ symbol = "-"
    /\ reg' = decrement(reg, pointer, 1)
    /\ text_pos' = text_pos + 1
    /\ last' = Before("-", 1)
    /\ UNCHANGED <<pc, text, pointer, use_outinput, no_input, outinput, output,
                   raw_lbrace, raw_rbrace, program_text, brace_map>>
    /\ UNCHANGED <<ops, bf2cVars, ref>>

interprete_left ==
    /\ Running /\ symbol = "<"
    /\ pointer' = move_left(pointer, 1)
    /\ text_pos' = text_pos + 1
    /\ last' = Before("<", 1)
    /\ UNCHANGED <<pc, text, reg, use_outinput, no_input, outinput, output,
                   raw_lbrace, raw_rbrace, program_text, brace_map>>
    /\ UNCHANGED <<ops, bf2cVars, ref>>

interprete_right ==
    /\ Running /\ symbol = ">"
    /\ pointer' = move_right(pointer, 1)
    /\ text_pos' = text_pos + 1
    /\ last' = Before(">", 1)
    /\ UNCHANGED <<pc, text, reg, use_outinput, no_input, outinput, output,
                   raw_lbrace, raw_rbrace, program_text, brace_map>>
    /\ UNCHANGED <<ops, bf2cVars, ref>>

interprete_output ==
    /\ Running /\ symbol = "."
    /\ Len(output) < MaxOut
    /\ output' = Append(output, read(reg, pointer))
    /\ text_pos' = text_pos + 1
    /\ last' = Before(".", 0)
    /\ UNCHANGED <<pc, text, reg, pointer, use_outinput, no_input, outinput,
                   raw_lbrace, raw_rbrace, program_text, brace_map>>
    /\ UNCHANGED <<ops, bf2cVars, ref>>

\* a buffer that is read but never shortened
Rest_keep(buffer) == buffer

\* self.outinput[1:] if len(self.outinput) > 1 else b''
Rest(buffer) == IF Len(buffer) > 1 THEN Tail(buffer) ELSE <<>>

\* a test that lets the interrupting symbol through to the write
Interrupting_never(uin) == FALSE

\* uin in {'', '\x00'} ... elif uin == '\x04'
Interrupting(uin) == uin \notin {EMPTY, 0} /\ uin = EOT

\* case ",": the source of the character, the interrupting symbol, the write
interprete_input ==
    /\ Running /\ symbol = ","
    /\ \E key \in GetcheChars :
        LET preloaded == use_outinput /\ Len(outinput) > 0
            nothing == no_input \/ (use_outinput /\ Len(outinput) < 1)
            uin == IF preloaded THEN outinput[1] ELSE IF nothing THEN 0 ELSE key
        IN  /\ (preloaded \/ nothing) => key = EMPTY
            /\ outinput' = IF preloaded THEN Rest(outinput) ELSE outinput
            /\ last' = [Before(",", uin) EXCEPT !.getche = ~(preloaded \/ nothing)]
            /\ IF Interrupting(uin)
               THEN /\ pc' = "aborted"
                    /\ UNCHANGED <<reg, text_pos>>
               ELSE /\ reg' = write(reg, pointer, IF uin = EMPTY THEN 0 ELSE uin)
                    /\ text_pos' = text_pos + 1
                    /\ pc' = pc
    /\ UNCHANGED <<text, pointer, use_outinput, no_input, output,
                   raw_lbrace, raw_rbrace, program_text, brace_map>>
    /\ UNCHANGED <<ops, bf2cVars, ref>>

interprete_open ==
    /\ Running /\ symbol = "["
    /\ last' = Before("[", 0)
    /\ IF read(reg, pointer) = 0
       THEN IF HasKey(brace_map, text_pos)
            THEN text_pos' = GetItem(brace_map, text_pos) + 1 /\ pc' = pc
            ELSE pc' = "KeyError" /\ text_pos' = text_pos
       ELSE text_pos' = text_pos + 1 /\ pc' = pc
    /\ UNCHANGED <<text, reg, pointer, use_outinput, no_input, outinput, output,
                   raw_lbrace, raw_rbrace, program_text, brace_map>>
    /\ UNCHANGED <<ops, bf2cVars, ref>>

interprete_close ==
    /\ Running /\ symbol = "]"
    /\ last' = Before("]", 0)
    /\ IF read(reg, pointer) # 0
       THEN IF HasValue(brace_map, text_pos)
            THEN text_pos' = get_map_key(brace_map, text_pos) + 1 /\ pc' = pc
            ELSE pc' = "KeyError" /\ text_pos' = text_pos
       ELSE text_pos' = text_pos + 1 /\ pc' = pc
    /\ UNCHANGED <<text, reg, pointer, use_outinput, no_input, outinput, output,
                   raw_lbrace, raw_rbrace, program_text, brace_map>>
    /\ UNCHANGED <<ops, bf2cVars, ref>>

\* the while loop of Main.run ends: text_pos has reached the end of the program
Done ==
    /\ pc = "run" /\ text_pos >= Len(text)
    /\ pc' = "done"
    /\ UNCHANGED <<text, text_pos, reg, pointer, use_outinput, no_input, outinput,
                   output, raw_lbrace, raw_rbrace, program_text, brace_map, last>>
    /\ UNCHANGED <<ops, bf2cVars, ref>>

Next ==
    \/ Load
    \/ map_braces
    \/ find_brace_pair
    \/ interprete_plus
    \/ interprete_minus
    \/ interprete_left
    \/ interprete_right
    \/ interprete_output
    \/ interprete_input
    \/ interprete_open
    \/ interprete_close
    \/ Done

Spec == Init /\ [][Next]_vars

\* the interpreter goes on as long as it has a step to take; a turn of a loop that
\* changes nothing is no step
FairSpec == Spec /\ WF_vars(Next)

(***************************************************************************)
(* bf2c.py: strip, minimize                                                *)
(***************************************************************************)
bf_strip(program) == SelectSeq(program, LAMBDA i : i \in BF_SYNTAX)

\* pattern in res, for a pattern of two characters
Contains(res, pattern) ==
    \E i \in 1..(Len(res) - 1) : res[i] = pattern[1] /\ res[i + 1] = pattern[2]

\* res.replace(pattern, ''): the occurrences are taken from the left, without overlap
RECURSIVE Replace(_, _)
Replace(res, pattern) ==
    IF Len(res) < 2 THEN res
    ELSE IF res[1] = pattern[1] /\ res[2] = pattern[2]
         THEN Replace(SubSeq(res, 3, Len(res)), pattern)
         ELSE <<res[1]>> \o Replace(Tail(res), pattern)

bad_patterns == {<<"<", ">">>, <<">", "<">>, <<"+", "-">>, <<"-", "+">>}
\* the orders in which a for loop may walk the set bad_patterns
PatternOrders ==
    {o \in [1..4 -> bad_patterns] : \A i, j \in 1..4 : i # j => o[i] # o[j]}

\* for pattern in bad_patterns: one walk over the set in the order given
RECURSIVE ForPatterns(_, _, _)
ForPatterns(res, order, k) ==
    IF k > Len(order) THEN res
    ELSE IF ~Contains(res, order[k]) THEN ForPatterns(res, order, k + 1)
    ELSE ForPatterns(Replace(res, order[k]), order, k + 1)

\* the while loop of bf_minimize
RECURSIVE CancelLoop(_, _, _)
CancelLoop(res, max_iters, order) ==
    IF (\E i \in bad_patterns : Contains(res, i)) /\ max_iters > 0
    THEN CancelLoop(ForPatterns(res, order, 1), max_iters - 1, order)
    ELSE res

\* the for loop over enumerate(res), from idx on: the value of program_start after it
RECURSIVE LeadingScan(_, _, _, _)
LeadingScan(res, idx, open_braces_count, program_start) ==
    IF idx >= Len(res) THEN program_start
    ELSE LET char == res[idx + 1]
             count == IF char = "[" THEN open_braces_count + 1
                      ELSE IF char = "]" THEN open_braces_count - 1
                      ELSE open_braces_count
         IN  IF char \notin {"[", "]"} /\ open_braces_count <= 0 THEN program_start
             ELSE LeadingScan(res, idx + 1, count,
                              IF count <= 0 THEN Min(idx + 1, Len(res) - 1)
                              ELSE program_start)

\* program_start of bf_minimize
ProgramStart(res) ==
    IF Len(res) > 0 /\ res[1] = "[" THEN LeadingScan(res, 0, 0, 0) ELSE 0

\* bf_minimize up to its call of _bf_braces_cleaner: the argument of that call
MinimizeHead(unminimized, order) ==
    LET res == CancelLoop(unminimized, Len(unminimized), order)
    IN  SubSeq(res, ProgramStart(res) + 1, Len(res))

\* the local variables of _bf_braces_cleaner when its while loop is entered
\* (at is the local variable pointer); state is where the function is
CleanerEntry(unsolved) ==
    [current |-> unsolved, first_brace |-> 0 - 1, at |-> 0, f_changed |-> FALSE,
     state |-> "loop"]

\* one turn of the while loop of _bf_braces_cleaner
CleanerTurn(c) ==
    IF c.at >= Len(c.current) THEN [c EXCEPT !.state = "IndexError"]
    ELSE LET found == c.current[c.at + 1]
             cut == found = "]" /\ c.first_brace >= 0
             current1 == IF cut
                         THEN SubSeq(c.current, 1, c.first_brace)
                              \o SubSeq(c.current, c.at + 2, Len(c.current))
                         ELSE c.current
             first1 == IF found = "[" THEN c.at
                       ELSE IF cut THEN 0 - 1
                       ELSE c.first_brace
             changed1 == IF cut THEN TRUE ELSE c.f_changed
             first2 == IF first1 >= 0 /\ c.at - first1 >= 1 THEN 0 - 1 ELSE first1
             wrap == c.at + 1 >= Len(current1)
         IN  [current |-> current1,
              first_brace |-> first2,
              at |-> IF wrap THEN 0 ELSE c.at + 1,
              f_changed |-> IF wrap THEN FALSE ELSE changed1,
              state |-> IF wrap /\ ~changed1 THEN "return" ELSE "loop"]

(***************************************************************************)
(* bf2c.py: the translation to C.  A text is the sequence of the pieces    *)
(* that were appended to it; the optimized intermediate code is a sequence *)
(* of characters.                                                          *)
(***************************************************************************)
C_HEAD == "#include <stdio.h>\nchar array[0xffff];int main(){char *ptr = array;setvbuf(stdout, NULL, _IONBF, 0);int c;\n"
C_TAIL == "\nputchar('\\n');\nreturn *ptr;}"

\* the statement of one command
ParseCommand(command) ==
    CASE command = "+" -> "++*ptr;"
      [] command = "-" -> "--*ptr;"
      [] command = "[" -> "\nwhile (*ptr) {"
      [] command = "]" -> "}\n"
      [] command = "<" -> "--ptr;"
      [] command = ">" -> "++ptr;"
      [] command = "." -> "putchar(*ptr);"
      [] command = "," -> "c=getchar();\nif (c >= 0) *ptr=c;"

bf_parse(program) ==
    LET commands == SelectSeq(program, LAMBDA command : command \in BF_SYNTAX)
    IN  <<C_HEAD>> \o [k \in 1..Len(commands) |-> ParseCommand(commands[k])] \o <<C_TAIL>>

\* str(repeat)
DecimalDigits == <<"0", "1", "2", "3", "4", "5", "6", "7", "8", "9">>
\* a count written with its last digit only
Str_units(n) == <<DecimalDigits[(n % 10) + 1]>>

RECURSIVE Str(_)
Str(n) ==
    IF n < 10 THEN <<DecimalDigits[n + 1]>>
    ELSE Str(n \div 10) \o <<DecimalDigits[(n % 10) + 1]>>

Counted(name, repeat) ==
    IF repeat <= 1 THEN name \o <<";">>
    ELSE name \o <<"=">> \o Str(repeat) \o <<";">>

opti_instruct(instruct, repeat) ==
    CASE instruct = "+" -> Counted(<<"a">>, repeat)
      [] instruct = "-" -> Counted(<<"s">>, repeat)
      [] instruct = "[" -> <<"{", ";">>
      [] instruct = "]" -> <<"}", ";">>
      [] instruct = "<" -> Counted(<<"m", "l">>, repeat)
      [] instruct = ">" -> Counted(<<"m", "r">>, repeat)
      [] instruct = "." -> <<"p", "t", "c", "h", ";">>
      [] instruct = "," -> <<"g", "t", "c", "h", ";">>

\* a loop that goes on counting whenever the symbol repeats, brackets and I/O included
RECURSIVE OptimizeLoop_merge(_, _, _, _, _)
OptimizeLoop_merge(unoptimized, k, char, count, res) ==
    IF k > Len(unoptimized) THEN res \o opti_instruct(char, count)
    ELSE LET sym == unoptimized[k]
         IN  IF char # sym
             THEN OptimizeLoop_merge(unoptimized, k + 1, sym, 1, res \o opti_instruct(char, count))
             ELSE OptimizeLoop_merge(unoptimized, k + 1, char, count + 1, res)

\* the for loop of bf_optimize over the symbols from position k on
RECURSIVE OptimizeLoop(_, _, _, _, _)
OptimizeLoop(unoptimized, k, char, count, res) ==
    IF k > Len(unoptimized) THEN res \o opti_instruct(char, count)
    ELSE LET sym == unoptimized[k]
         IN  IF char # sym \/ char \in {"[", "]", ".", ","}
             THEN OptimizeLoop(unoptimized, k + 1, sym, 1, res \o opti_instruct(char, count))
             ELSE OptimizeLoop(unoptimized, k + 1, char, count + 1, res)

bf_optimize(unoptimized) ==
    IF Len(unoptimized) = 0 THEN <<>>
    ELSE OptimizeLoop(unoptimized, 2, unoptimized[1], 1, <<>>)

\* str.split(sep) for a separator of one character
RECURSIVE Split(_, _)
Split(str, sep) ==
    IF \A k \in 1..Len(str) : str[k] # sep THEN <<str>>
    ELSE LET k == CHOOSE k \in 1..Len(str) :
                      str[k] = sep /\ \A j \in 1..(k - 1) : str[j] # sep
         IN  <<SubSeq(str, 1, k - 1)>> \o Split(SubSeq(str, k + 1, Len(str)), sep)

\* a translation that writes the unit statement whatever the count
OptiparseCommand_unit(command) ==
    LET token == Split(command, "=")[1]
    IN  CASE token = <<"a">> -> <<"++*ptr;">>
          [] token = <<"s">> -> <<"--*ptr;">>
          [] token = <<"{">> -> <<"\nwhile (*ptr) {">>
          [] token = <<"}">> -> <<"}\n">>
          [] token = <<"m", "l">> -> <<"--ptr;">>
          [] token = <<"m", "r">> -> <<"++ptr;">>
          [] token = <<"p", "t", "c", "h">> -> <<"putchar(*ptr);">>
          [] token = <<"g", "t", "c", "h">> -> <<"c=getchar();\nif (c >= 0) *ptr=c;">>
          [] token = <<>> -> <<>>

\* the pieces one command of the intermediate code adds to the C text
OptiparseCommand(command) ==
    LET num_split == Split(command, "=")
        token == num_split[1]
        repeat == IF Len(num_split) = 2 THEN num_split[2] ELSE <<"1">>
        counted(unit, compound) ==
            IF repeat = <<"1">> THEN <<unit>> ELSE <<compound>> \o repeat \o <<";">>
    IN  CASE token = <<"a">> -> counted("++*ptr;", "*ptr+=")
          [] token = <<"s">> -> counted("--*ptr;", "*ptr-=")
          [] token = <<"{">> -> <<"\nwhile (*ptr) {">>
          [] token = <<"}">> -> <<"}\n">>
          [] token = <<"m", "l">> -> counted("--ptr;", "ptr-=")
          [] token = <<"m", "r">> -> counted("++ptr;", "ptr+=")
          [] token = <<"p", "t", "c", "h">> -> <<"putchar(*ptr);">>
          [] token = <<"g", "t", "c", "h">> -> <<"c=getchar();\nif (c >= 0) *ptr=c;">>
          [] token = <<>> -> <<>>

RECURSIVE OptiparseLoop(_, _)
OptiparseLoop(program, k) ==
    IF k > Len(program) THEN <<>>
    ELSE IF program[k] = <<>> THEN OptiparseLoop(program, k + 1)
    ELSE OptiparseCommand(program[k]) \o OptiparseLoop(program, k + 1)

bf_optiparse(optimized) ==
    <<C_HEAD>> \o OptiparseLoop(Split(optimized, ";"), 1) \o <<C_TAIL>>

(***************************************************************************)
(* bf2c.py, __main__: strip, minimize, then optimize and parse, or parse.  *)
(***************************************************************************)
\* the longest text the model follows _bf_braces_cleaner to
MaxCurrent == 12

\* the arguments are read and the file is named
PipeInit ==
    /\ pc = "strip"
    /\ BFPROGRAM \in RawTexts
    /\ IS_OPTIMIZE \in BOOLEAN
    /\ BFOPROGRAM = <<>>
    /\ CPROGRAM = <<>>
    /\ cleaner = NoCleaner
    /\ cmachine = NoCMachine
    /\ text = BFPROGRAM
    /\ text_pos = 0
    /\ reg = reset_reg
    /\ pointer = 0
    /\ last = NoLast
    /\ ops = 0
    /\ use_outinput = FALSE
    /\ no_input = FALSE
    /\ outinput = <<>>
    /\ output = <<>>
    /\ raw_lbrace = <<>>
    /\ raw_rbrace = <<>>
    /\ program_text = <<>>
    /\ brace_map = <<>>
    /\ ref = NoRef

\* BFPROGRAM = bf_strip(BFPROGRAM)
Strip ==
    /\ pc = "strip"
    /\ BFPROGRAM' = bf_strip(BFPROGRAM)
    /\ pc' = "minimize"
    /\ UNCHANGED <<text, text_pos, registerVars, inputVars, output, mapVars,
                   IS_OPTIMIZE, BFOPROGRAM, CPROGRAM, cleaner, ref, cmachine>>

\* bf_minimize(BFPROGRAM) up to the while loop of _bf_braces_cleaner
bf_minimize ==
    /\ pc = "minimize"
    /\ \E order \in PatternOrders :
          cleaner' = CleanerEntry(MinimizeHead(BFPROGRAM, order))
    /\ pc' = "cleaner"
    /\ last' = Before("bf_minimize", 0)
    /\ UNCHANGED <<text, text_pos, reg, pointer, ops, inputVars, output, mapVars,
                   BFPROGRAM, IS_OPTIMIZE, BFOPROGRAM, CPROGRAM, ref, cmachine>>

\* one turn of the while loop of _bf_braces_cleaner; when it is left, bf_minimize
\* hands the text back to its caller, or the IndexError goes up
bf_braces_cleaner ==
    /\ pc = "cleaner"
    /\ LET c == CleanerTurn(cleaner)
       IN  /\ Len(c.current) <= MaxCurrent
           /\ cleaner' = c
           /\ pc' = IF c.state = "return" THEN "minimized"
                    ELSE IF c.state = "IndexError" THEN "IndexError"
                    ELSE pc
           /\ BFPROGRAM' = IF c.state = "return" THEN c.current ELSE BFPROGRAM
    /\ last' = Before("_bf_braces_cleaner", 0)
    /\ UNCHANGED <<text, text_pos, reg, pointer, ops, inputVars, output, mapVars,
                   IS_OPTIMIZE, BFOPROGRAM, CPROGRAM, ref, cmachine>>

\* BFOPROGRAM = bf_optimize(BFPROGRAM); CPROGRAM = bf_optiparse(BFOPROGRAM)
TranslateOptimized ==
    /\ pc = "minimized"
    /\ IS_OPTIMIZE
    /\ BFOPROGRAM' = bf_optimize(BFPROGRAM)
    /\ CPROGRAM' = bf_optiparse(BFOPROGRAM')
    /\ pc' = "saved"
    /\ UNCHANGED <<text, text_pos, registerVars, inputVars, output, mapVars,
                   BFPROGRAM, IS_OPTIMIZE, cleaner, ref, cmachine>>

\* CPROGRAM = bf_parse(BFPROGRAM)
TranslateDirect ==
    /\ pc = "minimized"
    /\ ~IS_OPTIMIZE
    /\ CPROGRAM' = bf_parse(BFPROGRAM)
    /\ pc' = "saved"
    /\ UNCHANGED <<text, text_pos, registerVars, inputVars, output, mapVars,
                   BFPROGRAM, IS_OPTIMIZE, BFOPROGRAM, cleaner, ref, cmachine>>

PipeNext ==
    \/ Strip
    \/ bf_minimize
    \/ bf_braces_cleaner
    \/ TranslateOptimized
    \/ TranslateDirect

PipeSpec == PipeInit /\ [][PipeNext]_vars

(***************************************************************************)
(* bf_minimize applied to a program and then to its own result.            *)
(***************************************************************************)
MinInit ==
    /\ pc = "minimize"
    /\ BFPROGRAM \in {bf_strip(t) : t \in RawTexts}
    /\ IS_OPTIMIZE = FALSE
    /\ BFOPROGRAM = <<>>
    /\ CPROGRAM = <<>>
    /\ cleaner = NoCleaner
    /\ cmachine = NoCMachine
    /\ text = BFPROGRAM
    /\ text_pos = 0
    /\ reg = reset_reg
    /\ pointer = 0
    /\ last = NoLast
    /\ ops = 0
    /\ use_outinput = FALSE
    /\ no_input = FALSE
    /\ outinput = <<>>
    /\ output = <<>>
    /\ raw_lbrace = <<>>
    /\ raw_rbrace = <<>>
    /\ program_text = <<>>
    /\ brace_map = <<>>
    /\ ref = NoRef

\* the result of the first call is kept and handed to a second call
MinimizeAgain ==
    /\ pc = "minimized"
    /\ ref = NoRef
    /\ ref' = [pc |-> "minimized", BFPROGRAM |-> BFPROGRAM]
    /\ pc' = "minimize"
    /\ UNCHANGED <<text, text_pos, registerVars, inputVars, output, mapVars, bf2cVars>>

MinNext ==
    \/ bf_minimize
    \/ bf_braces_cleaner
    \/ MinimizeAgain

MinSpec == MinInit /\ [][MinNext]_vars

(***************************************************************************)
(* The interpreter run on a program and then, from a fresh register and    *)
(* with the same input, on what bf_minimize makes of that program.  The    *)
(* input is the preloaded one, or none, so that both runs read the same.   *)
(***************************************************************************)
EquivInit ==
    /\ pc = "load"
    /\ text \in {bf_strip(t) : t \in RawTexts}
    /\ text_pos = 0
    /\ reg = reset_reg
    /\ pointer = 0
    /\ use_outinput = TRUE
    /\ no_input \in BOOLEAN
    /\ outinput \in OutInputs
    /\ output = <<>>
    /\ raw_lbrace = <<>>
    /\ raw_rbrace = <<>>
    /\ program_text = <<>>
    /\ brace_map = <<>>
    /\ last = NoLast
    /\ ops = 0
    /\ BFPROGRAM = text
    /\ IS_OPTIMIZE = FALSE
    /\ BFOPROGRAM = <<>>
    /\ CPROGRAM = <<>>
    /\ cleaner = NoCleaner
    /\ cmachine = NoCMachine
    /\ ref = [pc |-> "first", outinput |-> outinput]

\* the first run has halted: its outcome is kept, the program goes to bf_minimize
KeepOutcome ==
    /\ pc \in {"done", "aborted"}
    /\ ref.pc = "first"
    /\ ref' = [pc |-> pc, text |-> text, output |-> output, reg |-> reg,
               pointer |-> pointer, outinput |-> ref.outinput]
    /\ pc' = "minimize"
    /\ UNCHANGED <<text, text_pos, registerVars, inputVars, output, mapVars, bf2cVars>>

\* the minimized program is run with the input of the first run
RunMinimized ==
    /\ pc = "minimized"
    /\ text' = BFPROGRAM
    /\ outinput' = ref.outinput
    /\ output' = <<>>
    /\ last' = NoLast
    /\ pc' = "load"
    /\ UNCHANGED <<text_pos, reg, pointer, ops, use_outinput, no_input, mapVars,
                   bf2cVars, ref>>

EquivNext ==
    \/ Load
    \/ map_braces
    \/ find_brace_pair
    \/ interprete_plus
    \/ interprete_minus
    \/ interprete_left
    \/ interprete_right
    \/ interprete_output
    \/ interprete_input
    \/ interprete_open
    \/ interprete_close
    \/ Done
    \/ KeepOutcome
    \/ bf_minimize
    \/ bf_braces_cleaner
    \/ RunMinimized

EquivSpec == EquivInit /\ [][EquivNext]_vars

(***************************************************************************)
(* bf_optimize, bf_optiparse and bf_parse on their own: the translation of *)
(* any program over the eight symbols, long runs of one symbol included.   *)
(***************************************************************************)
\* the longest run of one symbol in the programs made of runs
MaxRun == 11

Run(c, n) == [i \in 1..n |-> c]
Scenario6 == {Run("+", 3), Run("+", 3) \o <<".">> \o Run("+", 3)}
\* programs of one run, and of two runs side by side
RunPrograms ==
    {Run(a, m) \o Run(b, n) : <<a, m, b, n>> \in BF_SYNTAX \X (1..MaxRun) \X BF_SYNTAX \X (0..MaxRun)}
OptPrograms == Programs \cup RunPrograms \cup Scenario6 \cup {bf_strip(t) : t \in Scenarios}

OptInit ==
    /\ pc = "minimized"
    /\ BFPROGRAM \in OptPrograms
    /\ IS_OPTIMIZE \in BOOLEAN
    /\ BFOPROGRAM = <<>>
    /\ CPROGRAM = <<>>
    /\ cleaner = NoCleaner
    /\ cmachine = NoCMachine
    /\ text = BFPROGRAM
    /\ text_pos = 0
    /\ reg = reset_reg
    /\ pointer = 0
    /\ last = NoLast
    /\ ops = 0
    /\ use_outinput = FALSE
    /\ no_input = FALSE
    /\ outinput = <<>>
    /\ output = <<>>
    /\ raw_lbrace = <<>>
    /\ raw_rbrace = <<>>
    /\ program_text = <<>>
    /\ brace_map = <<>>
    /\ ref = NoRef

OptNext ==
    \/ TranslateOptimized
    \/ TranslateDirect

OptSpec == OptInit /\ [][OptNext]_vars

(***************************************************************************)
(* The C text of bf_parse as a program.  Its statements are the pieces of  *)
(* CPROGRAM; a cell of array is a char, kept here as its byte, so that     *)
(* ++ and -- go around at the ends of the byte range whatever the sign of  *)
(* char; putchar writes that byte; getchar hands out the next byte of      *)
(* stdin, or EOF, which is negative.  Moving ptr in front of array, or     *)
(* more than one past its end, or using *ptr one past its end, is          *)
(* undefined in C: the model stops following the program there.            *)
(***************************************************************************)
\* char array[0xffff]: the model keeps the array short and longer than the register
ARRAY_SIZE == 4
EOF == 0 - 1

\* C_HEAD: the state of main before the first translated statement
CMain(stdin) ==
    [array |-> [i \in 0..(ARRAY_SIZE - 1) |-> 0], ptr |-> 0, c |-> 0, stdin |-> stdin,
     stdout |-> <<>>, at |-> 2, state |-> "main"]

\* the braces of the C text, as the brackets they were made of
CBlocks(ctext) ==
    [k \in 1..Len(ctext) |->
        IF ctext[k] = "\nwhile (*ptr) {" THEN "["
        ELSE IF ctext[k] = "}\n" THEN "]"
        ELSE "x"]

\* the statement at position m.at of ctext is executed
CStatement(m, ctext) ==
    LET statement == ctext[m.at]
        inside == m.ptr \in 0..(ARRAY_SIZE - 1)
        value == m.array[m.ptr]
        next == [m EXCEPT !.at = m.at + 1]
        undefined == [m EXCEPT !.state = "undefined"]
        Depth(k) ==
            Cardinality({i \in 1..k : CBlocks(ctext)[i] = "["})
                - Cardinality({i \in 1..k : CBlocks(ctext)[i] = "]"})
        \* the '}' of the while at position at, and the while of the '}' at position at
        closing == CHOOSE q \in (m.at + 1)..Len(ctext) :
                      /\ Depth(q) = Depth(m.at - 1)
                      /\ \A r \in m.at..(q - 1) : Depth(r) > Depth(m.at - 1)
        opening == CHOOSE q \in 1..(m.at - 1) :
                      /\ Depth(q - 1) = Depth(m.at)
                      /\ \A r \in q..(m.at - 1) : Depth(r) > Depth(m.at)
    IN  CASE statement = "++ptr;" ->
                IF m.ptr + 1 > ARRAY_SIZE THEN undefined ELSE [next EXCEPT !.ptr = m.ptr + 1]
          [] statement = "--ptr;" ->
                IF m.ptr - 1 < 0 THEN undefined ELSE [next EXCEPT !.ptr = m.ptr - 1]
          [] statement = "c=getchar();\nif (c >= 0) *ptr=c;" ->
                IF Len(m.stdin) = 0 THEN [next EXCEPT !.c = EOF]
                ELSE IF ~inside THEN undefined
                ELSE [next EXCEPT !.c = m.stdin[1], !.stdin = Tail(m.stdin),
                                  !.array[m.ptr] = m.stdin[1]]
          [] ~inside -> undefined
          [] statement = "++*ptr;" -> [next EXCEPT !.array[m.ptr] = (value + 1) % 256]
          [] statement = "--*ptr;" -> [next EXCEPT !.array[m.ptr] = (value - 1) % 256]
          [] statement = "putchar(*ptr);" -> [next EXCEPT !.stdout = Append(m.stdout, value)]
          [] statement = "\nwhile (*ptr) {" ->
                IF value = 0 THEN [m EXCEPT !.at = closing + 1] ELSE next
          [] statement = "}\n" ->
                IF value # 0 THEN [m EXCEPT !.at = opening + 1] ELSE next
          [] statement = C_TAIL ->
                [next EXCEPT !.stdout = Append(m.stdout, 10), !.state = "exit"]

(***************************************************************************)
(* The interpreter run on a program and then the C text that bf_parse      *)
(* makes of the same program, run on the same input.                       *)
(***************************************************************************)
EmitInit ==
    /\ pc = "load"
    /\ text \in {bf_strip(t) : t \in RawTexts}
    /\ text_pos = 0
    /\ reg = reset_reg
    /\ pointer = 0
    /\ use_outinput = TRUE
    /\ no_input = FALSE
    /\ outinput \in OutInputs
    /\ output = <<>>
    /\ raw_lbrace = <<>>
    /\ raw_rbrace = <<>>
    /\ program_text = <<>>
    /\ brace_map = <<>>
    /\ last = NoLast
    /\ ops = 0
    /\ BFPROGRAM = text
    /\ IS_OPTIMIZE = FALSE
    /\ BFOPROGRAM = <<>>
    /\ CPROGRAM = <<>>
    /\ cleaner = NoCleaner
    /\ cmachine = NoCMachine
    /\ ref = [pc |-> "first", outinput |-> outinput]

\* the interpreter has halted: its outcome is kept, the program goes to bf_parse
KeepForEmitter ==
    /\ pc \in {"done", "aborted"}
    /\ ref.pc = "first"
    /\ ref' = [pc |-> pc, text |-> text, output |-> output, reg |-> reg,
               pointer |-> pointer, outinput |-> ref.outinput]
    /\ pc' = "minimized"
    /\ UNCHANGED <<text, text_pos, registerVars, inputVars, output, mapVars, bf2cVars>>

\* the C program is started on the input the interpreter had
c_main ==
    /\ pc = "saved"
    /\ cmachine' = CMain(ref.outinput)
    /\ pc' = "c_main"
    /\ UNCHANGED <<text, text_pos, registerVars, inputVars, output, mapVars,
                   BFPROGRAM, IS_OPTIMIZE, BFOPROGRAM, CPROGRAM, cleaner, ref>>

\* one statement of the C program
c_statement ==
    /\ pc = "c_main"
    /\ LET m == CStatement(cmachine, CPROGRAM)
       IN  /\ Len(m.stdout) <= MaxOut + 1
           /\ cmachine' = m
           /\ pc' = IF m.state = "exit" THEN "c_exit"
                    ELSE IF m.state = "undefined" THEN "c_undefined"
                    ELSE pc
    /\ UNCHANGED <<text, text_pos, registerVars, inputVars, output, mapVars,
                   BFPROGRAM, IS_OPTIMIZE, BFOPROGRAM, CPROGRAM, cleaner, ref>>

EmitNext ==
    \/ Load
    \/ map_braces
    \/ find_brace_pair
    \/ interprete_plus
    \/ interprete_minus
    \/ interprete_left
    \/ interprete_right
    \/ interprete_output
    \/ interprete_input
    \/ interprete_open
    \/ interprete_close
    \/ Done
    \/ KeepForEmitter
    \/ TranslateDirect
    \/ c_main
    \/ c_statement

EmitSpec == EmitInit /\ [][EmitNext]_vars

(***************************************************************************)
(* The Register on its own: any sequence of its operations from reset().   *)
(***************************************************************************)
\* the characters handed to write, by code point: NUL, the interrupting symbol,
\* values next to the top of the cell range, and one past it
WriteChars == {0, 1, EOT, 127, CHAR_SIZE_MAX - 2, CHAR_SIZE_MAX - 1, CHAR_SIZE_MAX}

\* Register.__init__
MachineInit ==
    /\ pc = "register"
    /\ reg = reset_reg
    /\ pointer = 0
    /\ last = NoLast
    /\ ops = 0
    /\ text = <<>>
    /\ text_pos = 0
    /\ use_outinput = FALSE
    /\ no_input = FALSE
    /\ outinput = <<>>
    /\ output = <<>>
    /\ raw_lbrace = <<>>
    /\ raw_rbrace = <<>>
    /\ program_text = <<>>
    /\ brace_map = <<>>
    /\ BFPROGRAM = <<>>
    /\ IS_OPTIMIZE = FALSE
    /\ BFOPROGRAM = <<>>
    /\ CPROGRAM = <<>>
    /\ cleaner = NoCleaner
    /\ cmachine = NoCMachine
    /\ ref = NoRef

MachineStep(name, n) ==
    /\ pc = "register"
    /\ ops < MaxOps
    /\ ops' = ops + 1
    /\ last' = Before(name, n)
    /\ UNCHANGED <<pc, text, text_pos, inputVars, output, mapVars, bf2cVars, ref>>

Register_reset ==
    /\ MachineStep("reset", 0)
    /\ reg' = reset_reg
    /\ pointer' = 0

Register_move_left ==
    \E n \in 1..MaxN :
        /\ MachineStep("move_left", n)
        /\ pointer' = move_left(pointer, n)
        /\ reg' = reg

Register_move_right ==
    \E n \in 1..MaxN :
        /\ MachineStep("move_right", n)
        /\ pointer' = move_right(pointer, n)
        /\ reg' = reg

Register_write ==
    \E char \in WriteChars :
        /\ MachineStep("write", char)
        /\ reg' = write(reg, pointer, char)
        /\ pointer' = pointer

Register_increment ==
    \E n \in 1..MaxN :
        /\ MachineStep("increment", n)
        /\ reg' = increment(reg, pointer, n)
        /\ pointer' = pointer

Register_decrement ==
    \E n \in 1..MaxN :
        /\ MachineStep("decrement", n)
        /\ reg' = decrement(reg, pointer, n)
        /\ pointer' = pointer

MachineNext ==
    \/ Register_reset
    \/ Register_move_left
    \/ Register_move_right
    \/ Register_write
    \/ Register_increment
    \/ Register_decrement

MachineSpec == MachineInit /\ [][MachineNext]_vars

(***************************************************************************)
(* The pairs that bf_minimize removes, interpreted on the Register: from   *)
(* any state the Register operations lead to, the two instructions of a    *)
(* pair are interpreted one after the other.                               *)
(***************************************************************************)
\* the Register after interprete(word) for one of + - < >
Interpreted(word, r, p) ==
    CASE word = "+" -> [reg |-> increment(r, p, 1), pointer |-> p]
      [] word = "-" -> [reg |-> decrement(r, p, 1), pointer |-> p]
      [] word = "<" -> [reg |-> r, pointer |-> move_left(p, 1)]
      [] word = ">" -> [reg |-> r, pointer |-> move_right(p, 1)]

\* the first instruction of a pair; the state in front of the pair is kept
PairFirst ==
    /\ pc = "register"
    /\ \E pattern \in bad_patterns :
          /\ ref' = [pc |-> "pair", pattern |-> pattern, reg |-> reg, pointer |-> pointer]
          /\ reg' = Interpreted(pattern[1], reg, pointer).reg
          /\ pointer' = Interpreted(pattern[1], reg, pointer).pointer
          /\ last' = Before(pattern[1], 1)
    /\ pc' = "pair"
    /\ UNCHANGED <<text, text_pos, ops, inputVars, output, mapVars, bf2cVars>>

\* the second instruction of the pair
PairSecond ==
    /\ pc = "pair"
    /\ reg' = Interpreted(ref.pattern[2], reg, pointer).reg
    /\ pointer' = Interpreted(ref.pattern[2], reg, pointer).pointer
    /\ last' = Before(ref.pattern[2], 1)
    /\ pc' = "paired"
    /\ UNCHANGED <<text, text_pos, ops, inputVars, output, mapVars, bf2cVars, ref>>

PairNext ==
    \/ MachineNext
    \/ PairFirst
    \/ PairSecond

PairSpec == MachineInit /\ [][PairNext]_vars

(***************************************************************************)
(* The bracket structure of a text, stated on the text alone.              *)
(***************************************************************************)
Count(t, c) == Cardinality({i \in 1..Len(t) : t[i] = c})
\* nesting depth after the first k characters
Depth(t, k) ==
    Cardinality({i \in 1..k : t[i] = "["}) - Cardinality({i \in 1..k : t[i] = "]"})
ProperlyNested(t) ==
    /\ \A k \in 0..Len(t) : Depth(t, k) >= 0
    /\ Depth(t, Len(t)) = 0
OpenPositions(t) == {p \in 0..(Len(t) - 1) : t[p + 1] = "["}
ClosePositions(t) == {p \in 0..(Len(t) - 1) : t[p + 1] = "]"}
\* the ']' that closes the '[' at position p: the first later position at which
\* the depth is back to what it was in front of p
MatchingClose(t, p) ==
    CHOOSE q \in ClosePositions(t) :
        /\ q > p
        /\ Depth(t, q + 1) = Depth(t, p)
        /\ \A r \in (p + 1)..(q - 1) : Depth(t, r + 1) > Depth(t, p)
MatchingOpen(t, q) == CHOOSE p \in OpenPositions(t) : MatchingClose(t, p) = q
Mapped == pc \in {"run", "done", "aborted"}
Scenario3 == <<"+", "+", "[", ">", "+", "+", "<", "-", "]", ">", ".">>

(***************************************************************************)
(* The run-length instructions, stated on their own: how the intermediate  *)
(* code reads as a list of (kind, count), what such a list expands to, and *)
(* the list a program stands for.                                          *)
(***************************************************************************)
Mergeable == {"+", "-", "<", ">"}
KindOf(c) ==
    CASE c = "+" -> "Add"
      [] c = "-" -> "Sub"
      [] c = "<" -> "MoveLeft"
      [] c = ">" -> "MoveRight"
      [] c = "[" -> "LoopOpen"
      [] c = "]" -> "LoopClose"
      [] c = "." -> "Output"
      [] c = "," -> "Input"
SymbolOf(kind) == CHOOSE c \in BF_SYNTAX : KindOf(c) = kind
TokenKind(token) ==
    CASE token = <<"a">> -> "Add"
      [] token = <<"s">> -> "Sub"
      [] token = <<"m", "l">> -> "MoveLeft"
      [] token = <<"m", "r">> -> "MoveRight"
      [] token = <<"{">> -> "LoopOpen"
      [] token = <<"}">> -> "LoopClose"
      [] token = <<"p", "t", "c", "h">> -> "Output"
      [] token = <<"g", "t", "c", "h">> -> "Input"
      [] OTHER -> "Unknown"
DigitValue(d) == (CHOOSE i \in 1..10 : DecimalDigits[i] = d) - 1
RECURSIVE Number(_)
Number(digits) ==
    IF Len(digits) = 0 THEN 0
    ELSE 10 * Number(SubSeq(digits, 1, Len(digits) - 1)) + DigitValue(digits[Len(digits)])
\* the instructions written in the intermediate code, count 1 when none is written
RleInstructions(optimized) ==
    LET commands == SelectSeq(Split(optimized, ";"), LAMBDA command : command # <<>>)
        instruction(command) ==
            LET num_split == Split(command, "=")
            IN  [kind |-> TokenKind(num_split[1]),
                 count |-> IF Len(num_split) = 2 THEN Number(num_split[2]) ELSE 1]
    IN  [k \in 1..Len(commands) |-> instruction(commands[k])]
\* every instruction replayed count times
RECURSIVE Expand(_)
Expand(rle) ==
    IF Len(rle) = 0 THEN <<>>
    ELSE Run(SymbolOf(rle[1].kind), rle[1].count) \o Expand(Tail(rle))
\* the last position of the maximal run that begins at position i of p
RunEnd(p, i) ==
    IF p[i] \notin Mergeable THEN i
    ELSE CHOOSE j \in i..Len(p) :
            /\ \A k \in i..j : p[k] = p[i]
            /\ (j < Len(p) => p[j + 1] # p[i])
\* the instructions p stands for, from position i on: one for each maximal run of a
\* mergeable symbol, one for each bracket and each I/O symbol
RECURSIVE RunsOf(_, _)
RunsOf(p, i) ==
    IF i > Len(p) THEN <<>>
    ELSE <<[kind |-> KindOf(p[i]), count |-> RunEnd(p, i) - i + 1]>> \o RunsOf(p, RunEnd(p, i) + 1)

(***************************************************************************)
(* The statements of a C text, stated on the text alone: a compound        *)
(* assignment is its operator, the digits of its count and a semicolon;    *)
(* every other piece is a statement by itself.                             *)
(***************************************************************************)
Compounds == {"*ptr+=", "*ptr-=", "ptr-=", "ptr+="}
UnitOf(compound) ==
    CASE compound = "*ptr+=" -> "++*ptr;"
      [] compound = "*ptr-=" -> "--*ptr;"
      [] compound = "ptr-=" -> "--ptr;"
      [] compound = "ptr+=" -> "++ptr;"
\* the position of the semicolon that ends the compound assignment at position i
CompoundEnd(ctext, i) == CHOOSE j \in (i + 1)..Len(ctext) :
    ctext[j] = ";" /\ \A k \in (i + 1)..(j - 1) : ctext[k] # ";"
\* the statements of ctext from position i on
RECURSIVE StatementsOf(_, _)
StatementsOf(ctext, i) ==
    IF i > Len(ctext) THEN <<>>
    ELSE IF ctext[i] \in Compounds
         THEN <<[unit |-> UnitOf(ctext[i]), compound |-> TRUE,
                 count |-> Number(SubSeq(ctext, i + 1, CompoundEnd(ctext, i) - 1))]>>
              \o StatementsOf(ctext, CompoundEnd(ctext, i) + 1)
         ELSE <<[unit |-> ctext[i], compound |-> FALSE, count |-> 1]>>
              \o StatementsOf(ctext, i + 1)
\* every compound assignment with count k written as k unit statements
RECURSIVE Unfolded(_)
Unfolded(statements) ==
    IF Len(statements) = 0 THEN <<>>
    ELSE Run(statements[1].unit, statements[1].count) \o Unfolded(Tail(statements))

(***************************************************************************)
(* C1.  Loop jumps of the interpreter: a '[' executed at position i with   *)
(* the current cell 0 leaves the cursor one past the matching ']', and at  *)
(* i + 1 otherwise; a ']' executed at position j with the current cell     *)
(* nonzero leaves the cursor one past the matching '[', and at j + 1       *)
(* otherwise; neither touches the tape or the pointer, and neither lookup  *)
(* fails.  The program ++[>++<-]>. ends having printed the code 4.         *)
(***************************************************************************)
C1_LoopJumps ==
    /\ pc # "KeyError"
    /\ last.op = "[" =>
          /\ text_pos = IF last.reg[last.pointer] = 0
                        THEN MatchingClose(text, last.text_pos) + 1
                        ELSE last.text_pos + 1
          /\ reg = last.reg
          /\ pointer = last.pointer
    /\ last.op = "]" =>
          /\ text_pos = IF last.reg[last.pointer] # 0
                        THEN MatchingOpen(text, last.text_pos) + 1
                        ELSE last.text_pos + 1
          /\ reg = last.reg
          /\ pointer = last.pointer
    /\ (text = Scenario3 /\ pc = "done") => output = <<4>>

\* the second turn of the loop of ++[>++<-]>. has jumped back from its ']'
C1_Witness ==
    /\ text = Scenario3
    /\ last.op = "]"
    /\ last.reg[last.pointer] # 0
    /\ text_pos = 3
    /\ reg[1] = 2

(***************************************************************************)
(* C3.  map_braces on a properly nested program: the scan always finds a   *)
(* pair, and the finished map has exactly the '[' positions as keys and    *)
(* the ']' positions as values, each once, every '[' mapped to the ']'     *)
(* that closes it, which lies behind it; get_map_key of a ']' position is  *)
(* the '[' position mapped to it.                                          *)
(***************************************************************************)
C3_BoundaryMap ==
    (pc # "load" /\ ProperlyNested(text)) =>
        /\ pc # "exit5"
        /\ pc = "find_brace_pair" =>
              ScanBrace(program_text, raw_lbrace[Len(raw_lbrace)],
                        raw_rbrace[Len(raw_rbrace)], 0) >= 0
        /\ Mapped =>
              /\ {brace_map[i][1] : i \in 1..Len(brace_map)} = OpenPositions(text)
              /\ {brace_map[i][2] : i \in 1..Len(brace_map)} = ClosePositions(text)
              /\ Len(brace_map) = Cardinality(OpenPositions(text))
              /\ Len(brace_map) = Cardinality(ClosePositions(text))
              /\ \A p \in OpenPositions(text) :
                    /\ HasKey(brace_map, p)
                    /\ GetItem(brace_map, p) = MatchingClose(text, p)
                    /\ GetItem(brace_map, p) > p
                    /\ HasValue(brace_map, GetItem(brace_map, p))
                    /\ get_map_key(brace_map, GetItem(brace_map, p)) = p

\* []+[[-]] is mapped: two loops side by side, one of them with a loop inside
C3_Witness ==
    /\ text = <<"[", "]", "+", "[", "[", "-", "]", "]">>
    /\ pc = "run"
    /\ text_pos = 0
    /\ Len(brace_map) = 3
    /\ GetItem(brace_map, 3) = 7
    /\ GetItem(brace_map, 4) = 6

(***************************************************************************)
(* C4.  A program with different numbers of '[' and ']' never gets past    *)
(* map_braces: the run ends at sysexit(5), no instruction has been         *)
(* interpreted, every cell is 0 and the pointer is 0.                      *)
(***************************************************************************)
C4_MismatchRejected ==
    Count(text, "[") # Count(text, "]") =>
        /\ pc \in {"load", "map_braces", "exit5"}
        /\ last.op = "none"
        /\ text_pos = 0
        /\ output = <<>>
        /\ reg = reset_reg
        /\ pointer = 0

\* [[-] has been rejected
C4_Witness ==
    /\ text = <<"[", "[", "-", "]">>
    /\ pc = "exit5"
    /\ reg = reset_reg
    /\ pointer = 0

(***************************************************************************)
(* C2.  From reset(), after any sequence of move_left, move_right,         *)
(* increment, decrement (each with n >= 1) and write, every cell holds an  *)
(* integer of 0..255 and the pointer is a position of the tape.            *)
(***************************************************************************)
C2_MachineRange ==
    /\ DOMAIN reg = Cells
    /\ \A i \in Cells : reg[i] \in 0..(CHAR_SIZE_MAX - 1)
    /\ pointer \in Cells

\* a move to the left by more than the pointer's position, with a cell at 255
C2_Witness ==
    /\ ops >= 3
    /\ last.op = "move_left"
    /\ last.pointer - last.n < 0
    /\ pointer = REG_SIZE_MAX - 1
    /\ \E i \in Cells : reg[i] = CHAR_SIZE_MAX - 1

(***************************************************************************)
(* C10.  Saturating arithmetic: increment(n) leaves the current cell at    *)
(* min(255, v + n) and decrement(n) leaves it at max(0, v - n), where v is *)
(* the cell's value before; no other cell changes and the pointer stays.   *)
(***************************************************************************)
C10_Saturation ==
    /\ last.op = "increment" =>
          /\ reg[last.pointer] = Min(255, last.reg[last.pointer] + last.n)
          /\ pointer = last.pointer
          /\ \A i \in Cells \ {last.pointer} : reg[i] = last.reg[i]
    /\ last.op = "decrement" =>
          /\ reg[last.pointer] = Max(0, last.reg[last.pointer] - last.n)
          /\ pointer = last.pointer
          /\ \A i \in Cells \ {last.pointer} : reg[i] = last.reg[i]

\* an increment of a cell that is at 255 already, away from cell 0
C10_Witness ==
    /\ last.op = "increment"
    /\ last.reg[last.pointer] = 255
    /\ reg[pointer] = 255
    /\ pointer # 0

(***************************************************************************)
(* C5.  bf2c.py emits no C text for a program whose numbers of '[' and of  *)
(* ']' differ: the run has ended before bf_parse or bf_optiparse is        *)
(* reached.                                                                *)
(***************************************************************************)
C5_NoEmissionOnMismatch ==
    Count(text, "[") # Count(text, "]") =>
        /\ pc # "saved"
        /\ CPROGRAM = <<>>

(***************************************************************************)
(* C6.  bf_minimize keeps the meaning of a properly nested program: when   *)
(* the interpreter has halted on the program and, from a fresh register    *)
(* and on the same input, on what bf_minimize returned for it, the two     *)
(* runs ended alike: same halt, same output, same tape, same pointer.      *)
(***************************************************************************)
C6_MinimizerEquivalent ==
    (ref.pc \in {"done", "aborted"} /\ ProperlyNested(ref.text)
        /\ pc \in {"done", "aborted"}) =>
            /\ pc = ref.pc
            /\ output = ref.output
            /\ reg = ref.reg
            /\ pointer = ref.pointer

\* the program once the cancelling pairs are gone
Cancelled(p) == CancelLoop(p, Len(p), CHOOSE o \in PatternOrders : TRUE)

(***************************************************************************)
(* C7.  When a properly nested program, its cancelling pairs removed,      *)
(* begins with '[', bf_minimize drops that loop up to and including the    *)
(* ']' that closes it before it goes on; a program that is one loop and    *)
(* nothing else is reduced to the empty program.                           *)
(***************************************************************************)
C7_LeadingLoopDeleted ==
    LET res == Cancelled(bf_strip(text))
    IN  (ProperlyNested(bf_strip(text)) /\ res # <<>> /\ res[1] = "[") =>
            /\ (pc = "cleaner" /\ last.op = "bf_minimize") =>
                  \E k \in (MatchingClose(res, 0) + 1)..Len(res) :
                      cleaner.current = SubSeq(res, k + 1, Len(res))
            /\ (pc = "minimized" /\ MatchingClose(res, 0) = Len(res) - 1) =>
                  BFPROGRAM = <<>>

(***************************************************************************)
(* C8.  bf_minimize raises nothing on a properly nested program, the       *)
(* empty program and the programs that cancel to nothing included.         *)
(***************************************************************************)
C8_MinimizerNoError ==
    ProperlyNested(bf_strip(text)) => pc # "IndexError"

(***************************************************************************)
(* C9.  bf_minimize is idempotent on properly nested programs: its result  *)
(* holds no <>, ><, +-, -+ and no [], and a second call on the result      *)
(* returns the result unchanged.                                           *)
(***************************************************************************)
C9_MinimizerIdempotent ==
    ProperlyNested(text) =>
        /\ pc = "minimized" =>
              /\ \A pattern \in bad_patterns : ~Contains(BFPROGRAM, pattern)
              /\ ~Contains(BFPROGRAM, <<"[", "]">>)
        /\ ref # NoRef =>
              /\ pc # "IndexError"
              /\ pc = "minimized" => BFPROGRAM = ref.BFPROGRAM

(***************************************************************************)
(* C11.  Unit moves are circular: move_right() on the last cell puts the   *)
(* pointer on cell 0, move_left() on cell 0 puts it on the last cell, and  *)
(* from every other position a unit move changes the pointer by exactly    *)
(* +1 or -1; the tape is left as it was.                                   *)
(***************************************************************************)
C11_UnitMoves ==
    /\ (last.op = "move_right" /\ last.n = 1) =>
          /\ pointer = IF last.pointer = REG_SIZE_MAX - 1 THEN 0 ELSE last.pointer + 1
          /\ reg = last.reg
    /\ (last.op = "move_left" /\ last.n = 1) =>
          /\ pointer = IF last.pointer = 0 THEN REG_SIZE_MAX - 1 ELSE last.pointer - 1
          /\ reg = last.reg

\* move_right() from the last cell, over a tape that is not all zero
C11_Witness ==
    /\ last.op = "move_right"
    /\ last.n = 1
    /\ last.pointer = REG_SIZE_MAX - 1
    /\ pointer = 0
    /\ \E i \in Cells : reg[i] # 0

(***************************************************************************)
(* C12.  Run-length round trip: for every program over the eight symbols,  *)
(* replaying each instruction of bf_optimize's result count times (once    *)
(* when no count is written) gives the program back, symbol for symbol.    *)
(***************************************************************************)
C12_RoundTrip ==
    (pc = "saved" /\ IS_OPTIMIZE) => Expand(RleInstructions(BFOPROGRAM)) = BFPROGRAM

\* a run whose count takes two digits, followed by a run of another symbol
C12_Witness ==
    /\ pc = "saved"
    /\ IS_OPTIMIZE
    /\ BFPROGRAM = Run("+", 10) \o Run(">", 2)
    /\ BFOPROGRAM = <<"a", "=", "1", "0", ";", "m", "r", "=", "2", ";">>

(***************************************************************************)
(* C13.  Where the runs end: in bf_optimize's result every '[', ']', '.'   *)
(* and ',' of the program is an instruction of its own with count 1, also  *)
(* when it is repeated, and every maximal run of k equal symbols of        *)
(* + - < > is one instruction with count k; no run goes across a bracket   *)
(* or an I/O symbol.  +++ gives (Add, 3); +++.+++ gives (Add, 3),          *)
(* (Output, 1), (Add, 3).                                                  *)
(***************************************************************************)
C13_RunBoundaries ==
    (pc = "saved" /\ IS_OPTIMIZE) =>
        LET rle == RleInstructions(BFOPROGRAM)
        IN  /\ rle = RunsOf(BFPROGRAM, 1)
            /\ \A k \in 1..Len(rle) :
                  rle[k].kind \in {"LoopOpen", "LoopClose", "Output", "Input"} => rle[k].count = 1
            /\ BFPROGRAM = Run("+", 3) => rle = <<[kind |-> "Add", count |-> 3]>>
            /\ BFPROGRAM = Run("+", 3) \o <<".">> \o Run("+", 3) =>
                  rle = <<[kind |-> "Add", count |-> 3], [kind |-> "Output", count |-> 1],
                          [kind |-> "Add", count |-> 3]>>

\* an output repeated, then a run of two: three instructions
C13_Witness ==
    /\ pc = "saved"
    /\ IS_OPTIMIZE
    /\ BFPROGRAM = <<".", ".", "+", "+">>
    /\ BFOPROGRAM = <<"p", "t", "c", "h", ";", "p", "t", "c", "h", ";", "a", "=", "2", ";">>

(***************************************************************************)
(* C14.  The interrupting symbol: when a ',' gets the interrupting symbol, *)
(* from the keyboard or from the preloaded input, the run is aborted with  *)
(* the cursor still on that ',' and with tape and pointer as they were,    *)
(* and nothing is interpreted after it: an aborted run is one whose last   *)
(* instruction was that ','.                                               *)
(***************************************************************************)
C14_AbortOnInterrupt ==
    /\ (last.op = "," /\ last.n = EOT) =>
          /\ pc = "aborted"
          /\ text_pos = last.text_pos
          /\ text[text_pos + 1] = ","
          /\ reg = last.reg
          /\ pointer = last.pointer
    /\ pc = "aborted" => (last.op = "," /\ last.n = EOT)

\* +[,.] on the preloaded input 255, EOT: aborted on the second turn of the loop
C14_Witness ==
    /\ pc = "aborted"
    /\ text = <<"+", "[", ",", ".", "]">>
    /\ use_outinput
    /\ text_pos = 2
    /\ reg[0] = 255
    /\ output = <<255>>

(***************************************************************************)
(* C15.  With the option no-input every ',' that is interpreted writes 0   *)
(* to the current cell and goes on, never aborting, whatever the other     *)
(* options are, a preloaded input that is not empty included.              *)
(***************************************************************************)
C15_NoInputWritesZero ==
    (no_input /\ last.op = ",") =>
        /\ pc # "aborted"
        /\ reg = [last.reg EXCEPT ![last.pointer] = 0]
        /\ text_pos = last.text_pos + 1

(***************************************************************************)
(* C16.  The preloaded input is used up in order and its end never blocks: *)
(* with the option prein a ',' takes the first byte that is left in the    *)
(* buffer and leaves the rest, so the k-th ',' gets the k-th byte and each *)
(* byte is handed out once; once the buffer is empty every ',' writes 0 to *)
(* the current cell and goes on at once.  The keyboard is never read.      *)
(***************************************************************************)
C16_PreloadedDrained ==
    (use_outinput /\ last.op = ",") =>
        /\ ~last.getche
        /\ IF Len(last.outinput) > 0
           THEN /\ last.n = last.outinput[1]
                /\ outinput = Tail(last.outinput)
                /\ last.n # EOT =>
                      /\ reg = [last.reg EXCEPT ![last.pointer] = last.n]
                      /\ text_pos = last.text_pos + 1
                      /\ pc # "aborted"
           ELSE /\ outinput = <<>>
                /\ reg = [last.reg EXCEPT ![last.pointer] = 0]
                /\ text_pos = last.text_pos + 1
                /\ pc # "aborted"

\* ,[>,] on the preloaded input 255, 255: the third ',' finds the buffer empty
C16_Witness ==
    /\ use_outinput
    /\ text = <<",", "[", ">", ",", "]">>
    /\ last.op = ","
    /\ last.outinput = <<>>
    /\ pointer = 2
    /\ reg = (0 :> 255 @@ 1 :> 255 @@ 2 :> 0)
    /\ text_pos = 4

(***************************************************************************)
(* C17.  The C text of bf_parse does what the interpreter does: for a      *)
(* properly nested program and any input, when the interpreter has halted  *)
(* and the C program made of the same program has run to its end on the    *)
(* same input, the C program has written what the interpreter printed      *)
(* (and then the newline of its epilogue).                                 *)
(***************************************************************************)
C17_EmitterEquivalent ==
    (pc = "c_exit" /\ ProperlyNested(text)) => cmachine.stdout = ref.output \o <<10>>

(***************************************************************************)
(* C18.  map_braces always comes to an end, with a map or with the braces  *)
(* mismatch error, and a program whose brackets are not properly nested is *)
(* rejected with that error, also when it has as many '[' as ']', as ][    *)
(* and []][[] have.                                                        *)
(***************************************************************************)
C18_ResolverTerminates ==
    /\ <>(pc \notin {"load", "map_braces", "find_brace_pair"})
    /\ (pc = "map_braces" /\ ~ProperlyNested(text)) ~> (pc = "exit5")

(***************************************************************************)
(* C19.  The cancelling pairs do nothing on the Register: from every state *)
(* of the Register, + then -, - then +, < then > and > then < leave the    *)
(* tape and the pointer exactly as they were in front of the pair.         *)
(***************************************************************************)
C19_PairsCancel ==
    pc = "paired" => (reg = ref.reg /\ pointer = ref.pointer)

(***************************************************************************)
(* C19, as the Register has it: < then > and > then < leave tape and       *)
(* pointer as they were, from every position; + then - and - then + leave  *)
(* the pointer and every other cell as they were, and the current cell     *)
(* too unless it stood at the end of the range the first of the two runs   *)
(* into: + then - takes a cell at 255 to 254, - then + takes a cell at 0   *)
(* to 1.                                                                   *)
(***************************************************************************)
C19_PairsCancelInside ==
    pc = "paired" =>
        LET v == ref.reg[ref.pointer]
        IN  /\ pointer = ref.pointer
            /\ ref.pattern \in {<<"<", ">">>, <<">", "<">>} => reg = ref.reg
            /\ ref.pattern = <<"+", "-">> =>
                  reg = [ref.reg EXCEPT ![ref.pointer] = IF v = 255 THEN 254 ELSE v]
            /\ ref.pattern = <<"-", "+">> =>
                  reg = [ref.reg EXCEPT ![ref.pointer] = IF v = 0 THEN 1 ELSE v]

\* - then + on a cell in the middle of the range, away from cell 0, next to a cell at 255
C19_Witness ==
    /\ pc = "paired"
    /\ ref.pattern = <<"-", "+">>
    /\ ref.pointer # 0
    /\ ref.reg[ref.pointer] = 127
    /\ reg = ref.reg
    /\ \E i \in Cells : reg[i] = 255

(***************************************************************************)
(* C20.  bf_minimize drops the first leading loop only: when the program,  *)
(* its cancelling pairs removed, begins with a loop that is followed at    *)
(* once by another loop whose body is not empty, what goes on to the       *)
(* brace cleaner is the program without its first loop, the second loop    *)
(* still in front; [-][-]+ is minimized to [-]+.                           *)
(***************************************************************************)
C20_OnlyFirstLeadingLoop ==
    LET res == Cancelled(bf_strip(text))
        q == MatchingClose(res, 0)
    IN  (/\ ProperlyNested(bf_strip(text))
         /\ res # <<>>
         /\ res[1] = "["
         /\ q + 3 <= Len(res)
         /\ res[q + 2] = "["
         /\ res[q + 3] # "]") =>
            /\ (pc = "cleaner" /\ last.op = "bf_minimize") =>
                  cleaner.current = SubSeq(res, q + 2, Len(res))
            /\ (pc = "minimized" /\ text = <<"[", "-", "]", "[", "-", "]", "+">>) =>
                  BFPROGRAM = <<"[", "-", "]", "+">>

(***************************************************************************)
(* C21.  Moves by more than one cell are circular too: from every pointer  *)
(* position p and for every n from 1 to the length of the tape,            *)
(* move_right(n) leaves the pointer at (p + n) mod length and move_left(n) *)
(* at (p - n) mod length.                                                  *)
(***************************************************************************)
C21_MovesModular ==
    /\ (last.op = "move_right" /\ last.n <= REG_SIZE_MAX) =>
          pointer = (last.pointer + last.n) % REG_SIZE_MAX
    /\ (last.op = "move_left" /\ last.n <= REG_SIZE_MAX) =>
          pointer = (last.pointer - last.n) % REG_SIZE_MAX

(***************************************************************************)
(* C22.  The optimized translation agrees with the direct one: the text of *)
(* bf_optiparse(bf_optimize(P)) has, between prologue and epilogue, one    *)
(* statement for each run-length instruction, the unit statement when the  *)
(* count is 1 and one compound assignment with the count when it is more,  *)
(* and with every compound assignment of count k written as k unit         *)
(* statements it is the text of bf_parse(P), piece for piece.              *)
(***************************************************************************)
C22_OptimizedAgrees ==
    (pc = "saved" /\ IS_OPTIMIZE) =>
        LET rle == RleInstructions(BFOPROGRAM)
            body == StatementsOf(SubSeq(CPROGRAM, 2, Len(CPROGRAM) - 1), 1)
        IN  /\ CPROGRAM[1] = C_HEAD
            /\ CPROGRAM[Len(CPROGRAM)] = C_TAIL
            /\ Len(body) = Len(rle)
            /\ \A k \in 1..Len(rle) :
                  /\ body[k].unit = ParseCommand(SymbolOf(rle[k].kind))
                  /\ body[k].count = rle[k].count
                  /\ body[k].compound = (rle[k].count > 1)
            /\ <<C_HEAD>> \o Unfolded(body) \o <<C_TAIL>> = bf_parse(BFPROGRAM)

\* a run of ten and a run of two: two compound assignments
C22_Witness ==
    /\ pc = "saved"
    /\ IS_OPTIMIZE
    /\ BFPROGRAM = Run("-", 10) \o Run("<", 2)
    /\ CPROGRAM = <<C_HEAD, "*ptr-=", "1", "0", ";", "ptr-=", "2", ";", C_TAIL>>

====
